---------------------------- MODULE Spec2Model ----------------------------
(***************************************************************************)
(* Dependency graph engine of go_dependencies (package.go,                 *)
(* dependencies.go): the package registry, edge construction, dependency   *)
(* depth, the "imported" analysis and the grouped report.                  *)
(*                                                                         *)
(* Go strings are sequences of byte values, so that Name(), the "internal" *)
(* substring test, the vendor pattern and the name order of pkgList.Less   *)
(* are computed as the code computes them.  A *Package is an index into    *)
(* heap (the allocation order), Nil is the nil pointer.                    *)
(***************************************************************************)
EXTENDS Integers, Sequences, FiniteSets, TLC

VARIABLES
    fs,                     \* the files filepath.Walk meets, in walk order
    pc,                     \* position of main
    walkPos,                \* next file of the walk
    pkgsByLocation,         \* map[string]*Package
    heap,                   \* the allocated Package structs, by reference
    ret,                    \* arguments and results of the last NewPackage
    todo,                   \* packages the running range over pkgsByLocation has yet to yield
    cur,                    \* package whose files loadDependencies is scanning
    importPath,             \* import path of the importSpec scanned last
    nImports,               \* number of importSpecs scanned so far
    pkgsByDependencyDepth,  \* map[int]pkgList
    output                  \* the records written to outputWriter, in order

vars == <<fs, pc, walkPos, pkgsByLocation, heap, ret, todo, cur, importPath,
          nImports, pkgsByDependencyDepth, output>>

-----------------------------------------------------------------------------
(* Bounds *)

MaxImports == 3

MaxLearnedLines == 1

-----------------------------------------------------------------------------
(* Strings *)

Nil == 0

S_C == <<67>>
S_a == <<97>>
S_b == <<98>>
S_main == <<109, 97, 105, 110>>
S_builtin == <<98, 117, 105, 108, 116, 105, 110>>
S_unsafe == <<117, 110, 115, 97, 102, 101>>
S_internal == <<105, 110, 116, 101, 114, 110, 97, 108>>
S_x == <<120>>
S_internal_x == S_internal \o <<47>> \o S_x
S_vendor == <<118, 101, 110, 100, 111, 114>>
S_vendor_internal_x == S_vendor \o <<47>> \o S_internal_x
S_golang_org_x == <<103, 111, 108, 97, 110, 103, 95, 111, 114, 103, 47, 120, 47>>
S_golang_org_x_n == S_golang_org_x \o <<110>>
S_imported == <<105, 109, 112, 111, 114, 116, 101, 100>>
S_unimported == <<117, 110>> \o S_imported

standardLibraryPath == <<47, 115>>

vendorRelPath == S_vendor

unlearnedIndicator == <<42>>

\* s < t on Go strings: bytewise lexicographic order.
StrLess(s, t) ==
    \E k \in 1..(Len(s) + 1) :
        /\ k - 1 <= Len(t)
        /\ \A i \in 1..(k - 1) : s[i] = t[i]
        /\ \/ k = Len(s) + 1 /\ k <= Len(t)
           \/ k <= Len(s) /\ k <= Len(t) /\ s[k] < t[k]

\* strings.Contains(s, sub)
Contains(s, sub) ==
    \E i \in 0..(Len(s) - Len(sub)) : SubSeq(s, i + 1, i + Len(sub)) = sub

\* strings.Split(s, "/")
RECURSIVE Split(_)
Split(s) ==
    IF \A i \in 1..Len(s) : s[i] # 47
    THEN <<s>>
    ELSE LET k == CHOOSE i \in 1..Len(s) :
                      s[i] = 47 /\ \A j \in 1..(i - 1) : s[j] # 47
         IN  <<SubSeq(s, 1, k - 1)>> \o Split(SubSeq(s, k + 1, Len(s)))

\* path.Join(elems...): empty elements are ignored, the rest joined by "/".
\* (Clean changes nothing on the slash-separated, dot-free paths used here.)
RECURSIVE PathJoin(_)
PathJoin(elems) ==
    IF elems = <<>> THEN <<>>
    ELSE LET rest == PathJoin(Tail(elems))
         IN  IF Head(elems) = <<>> THEN rest
             ELSE IF rest = <<>> THEN Head(elems)
             ELSE Head(elems) \o <<47>> \o rest

\* filepath.Base of a clean path
Base(s) == LET segs == Split(s) IN segs[Len(segs)]

\* fmt's %d
RECURSIVE Digits(_)
Digits(n) == IF n < 10 THEN <<48 + n>> ELSE Digits(n \div 10) \o <<48 + (n % 10)>>

Itoa(n) == IF n < 0 THEN <<45>> \o Digits(0 - n) ELSE Digits(n)

-----------------------------------------------------------------------------
(* Package *)

Refs == 1..Len(heap)

\* func (pkg *Package) IsVendor() bool
IsVendor(pkg) == Split(pkg.RelPath)[1] = vendorRelPath

\* func (pkg *Package) Name() string
Name(pkg) ==
    IF IsVendor(pkg) THEN PathJoin(Tail(Split(pkg.RelPath))) ELSE pkg.RelPath

\* func (pkg *Package) Predeclared() bool
Predeclared(pkg) == Name(pkg) = S_builtin \/ Name(pkg) = S_C \/ Name(pkg) = S_unsafe

\* func (li pkgList) Less(i, j int) bool
Less(h, li, i, j) == StrLess(Name(h[li[i]]), Name(h[li[j]]))

Swap(li, i, j) == [li EXCEPT ![i] = li[j], ![j] = li[i]]

\* sort.Sort on a pkgList: on the short lists of this model (six entries at
\* most) sort.Sort is its insertionSort, which moves each element left while
\* it is Less than its left neighbour.
RECURSIVE SiftLeft(_, _, _)
SiftLeft(h, li, j) ==
    IF j > 1 /\ Less(h, li, j, j - 1)
    THEN SiftLeft(h, Swap(li, j, j - 1), j - 1)
    ELSE li

RECURSIVE InsertionSort(_, _, _)
InsertionSort(h, li, i) ==
    IF i > Len(li) THEN li ELSE InsertionSort(h, SiftLeft(h, li, i), i + 1)

Sort(h, li) == InsertionSort(h, li, 2)

\* func (li *pkgList) makeUnique(): drops li[i] while it is the same pointer
\* as li[i+1].
RECURSIVE makeUniqueFrom(_, _)
makeUniqueFrom(li, i) ==
    IF i >= Len(li) THEN li
    ELSE IF li[i] = li[i + 1]
         THEN makeUniqueFrom(SubSeq(li, 1, i - 1) \o SubSeq(li, i + 1, Len(li)), i)
         ELSE makeUniqueFrom(li, i + 1)

makeUnique(li) == makeUniqueFrom(li, 1)

\* func (pkg *Package) DependsOn(dependency *Package)
DependsOn(h, p, dependency) ==
    [h EXCEPT ![p].Dependencies =
        makeUnique(Sort(h, Append(h[p].Dependencies, dependency)))]

\* Mutant: the back edge is recorded on the wrong package.
AppendDependant_Swapped(h, importedPkg, p) ==
    [h EXCEPT ![p].Dependants = Append(h[p].Dependants, importedPkg)]

\* importedPkg.Dependants = append(importedPkg.Dependants, pkg)
AppendDependant(h, importedPkg, p) ==
    [h EXCEPT ![importedPkg].Dependants = Append(h[importedPkg].Dependants, p)]

-----------------------------------------------------------------------------
(* Registry *)

Lookup(m, k) == IF k \in DOMAIN m THEN m[k] ELSE Nil

FullPathOf(rel) == standardLibraryPath \o <<47>> \o rel

NewPkgStruct(relPath, internal) ==
    [RelPath |-> relPath, Learned |-> FALSE, Dependencies |-> <<>>,
     Dependants |-> <<>>, Internal |-> internal]

\* Mutant: NewPackage without the check for an identity already loaded.
NewPackage_Overwrite(fullPath) ==
    LET relPath == IF fullPath = standardLibraryPath THEN <<>>
                   ELSE SubSeq(fullPath, Len(standardLibraryPath) + 2, Len(fullPath))
        internal == fullPath # standardLibraryPath /\ Contains(relPath, S_internal)
        new == Len(heap) + 1
    IN  /\ heap' = Append(heap, NewPkgStruct(relPath, internal))
        /\ pkgsByLocation' =
               [k \in DOMAIN pkgsByLocation \cup {fullPath} |->
                   IF k = fullPath THEN new ELSE pkgsByLocation[k]]
        /\ ret' = [arg |-> fullPath, pkg |-> new, err |-> FALSE]

\* func NewPackage(fullPath string) (pkg *Package, err error)
NewPackage(fullPath) ==
    IF fullPath \in DOMAIN pkgsByLocation
    THEN /\ ret' = [arg |-> fullPath, pkg |-> Nil, err |-> TRUE]
         /\ UNCHANGED <<pkgsByLocation, heap>>
    ELSE LET relPath == IF fullPath = standardLibraryPath THEN <<>>
                        ELSE SubSeq(fullPath, Len(standardLibraryPath) + 2,
                                    Len(fullPath))
             internal == fullPath # standardLibraryPath
                         /\ Contains(relPath, S_internal)
             new == Len(heap) + 1
         IN  /\ heap' = Append(heap, NewPkgStruct(relPath, internal))
             /\ pkgsByLocation' =
                    [k \in DOMAIN pkgsByLocation \cup {fullPath} |->
                        IF k = fullPath THEN new ELSE pkgsByLocation[k]]
             /\ ret' = [arg |-> fullPath, pkg |-> new, err |-> FALSE]

\* func pkgFromImportPath(importPath string) (pkg *Package)
\* The pattern golang_org/x/\w* matches exactly when the path contains
\* "golang_org/x/".
pkgFromImportPath(m, path) ==
    LET fullPath == IF Contains(path, S_golang_org_x)
                    THEN PathJoin(<<standardLibraryPath, S_vendor, path>>)
                    ELSE PathJoin(<<standardLibraryPath, path>>)
    IN  Lookup(m, fullPath)

-----------------------------------------------------------------------------
(* The files of the tree *)

\* A file the walk meets: its directory, whether its name ends in .go or
\* _test.go, whether its package clause parses, and the declared name.
GoFile(rel, decl) == [dir |-> FullPathOf(rel), kind |-> "go", decl |-> decl]

\* The tree of this model: package a; a directory b whose files declare
\* package main; internal/x and vendor/internal/x, two packages whose Name()
\* is "internal/x".
TheTree ==
    << GoFile(S_a, S_a),
       [dir |-> FullPathOf(S_a), kind |-> "test", decl |-> S_a],
       GoFile(S_a, S_a),
       GoFile(S_b, S_main),
       [dir |-> FullPathOf(S_internal_x), kind |-> "bad", decl |-> <<>>],
       GoFile(S_internal_x, S_x),
       [dir |-> FullPathOf(S_vendor), kind |-> "other", decl |-> <<>>],
       GoFile(S_vendor_internal_x, S_x) >>

\* The import paths met in the scanned files: one per package of the tree and
\* one, in the vendor namespace, that no directory of the tree answers to.
ImportPaths == {S_C, S_a, S_internal_x, S_vendor_internal_x, S_golang_org_x_n}

\* The lines the input file of learned packages may hold.
LearnedPaths == {S_a, S_internal_x, S_b}

-----------------------------------------------------------------------------
(* main *)

Init ==
    /\ fs = TheTree
    /\ pc = "start"
    /\ walkPos = 1
    /\ pkgsByLocation = <<>>
    /\ heap = <<>>
    /\ ret = [arg |-> <<>>, pkg |-> Nil, err |-> FALSE]
    /\ todo = {}
    /\ cur = Nil
    /\ importPath = <<>>
    /\ nImports = 0
    /\ pkgsByDependencyDepth = <<>>
    /\ output = <<>>

\* NewPackage(path.Join(standardLibraryPath, "C")) // pseudo-directory.
PrimeC ==
    /\ pc = "start"
    /\ NewPackage(PathJoin(<<standardLibraryPath, S_C>>))
    /\ pc' = "walk"
    /\ UNCHANGED <<fs, walkPos, todo, cur, importPath, nImports,
                   pkgsByDependencyDepth, output>>

\* func loadFileInfo(_path string) (err error), called by loadPath on each
\* file of the walk.
loadFileInfo(f) ==
    IF f.kind \in {"other", "test"} THEN UNCHANGED <<pkgsByLocation, heap, ret>>
    ELSE IF f.dir \in DOMAIN pkgsByLocation THEN UNCHANGED <<pkgsByLocation, heap, ret>>
    ELSE IF f.kind = "bad" THEN UNCHANGED <<pkgsByLocation, heap, ret>>
    ELSE IF f.decl = Base(f.dir) THEN NewPackage(f.dir)
    ELSE UNCHANGED <<pkgsByLocation, heap, ret>>

\* func loadPath, on the next file of the walk (on a directory loadPath
\* changes nothing; cmd and testdata are not walked into).
loadPath ==
    /\ pc = "walk"
    /\ walkPos <= Len(fs)
    /\ loadFileInfo(fs[walkPos])
    /\ walkPos' = walkPos + 1
    /\ UNCHANGED <<fs, pc, todo, cur, importPath, nImports,
                   pkgsByDependencyDepth, output>>

\* func loadLearnedPkgs() (err error): every line of the input file that
\* resolves to a package marks it learned.  (A missing input file is the
\* empty sequence of lines.)
RECURSIVE learnLines(_, _, _)
learnLines(h, m, lines) ==
    IF lines = <<>> THEN h
    ELSE LET pkg == pkgFromImportPath(m, Head(lines))
         IN  learnLines(IF pkg # Nil THEN [h EXCEPT ![pkg].Learned = TRUE] ELSE h,
                        m, Tail(lines))

InputFiles == UNION {[1..n -> LearnedPaths] : n \in 0..MaxLearnedLines}

loadLearnedPkgs ==
    /\ pc = "walk"
    /\ walkPos > Len(fs)
    /\ \E lines \in InputFiles : heap' = learnLines(heap, pkgsByLocation, lines)
    /\ pc' = "deps"
    /\ todo' = Refs
    /\ UNCHANGED <<fs, walkPos, pkgsByLocation, ret, cur, importPath, nImports,
                   pkgsByDependencyDepth, output>>

\* The packages p reaches through Dependencies edges, p included.
RECURSIVE DependencyClosure(_, _)
DependencyClosure(h, S) ==
    LET T == S \cup UNION {{h[q].Dependencies[i] : i \in 1..Len(h[q].Dependencies)} : q \in S}
    IN  IF T = S THEN S ELSE DependencyClosure(h, T)

\* The files scanned compile, so their imports form no cycle.
CompilesWith(h, p, importedPkg) == p \notin DependencyClosure(h, {importedPkg})

\* func loadDependencies(): the next key of the range over pkgsByLocation
\* (any order); the pseudo-package C is skipped.  The directory of every
\* other package was walked, so ReadDir succeeds.
loadDependencies ==
    /\ pc = "deps"
    /\ \E p \in todo :
        /\ todo' = todo \ {p}
        /\ cur' = IF Name(heap[p]) = S_C THEN Nil ELSE p
    /\ UNCHANGED <<fs, pc, walkPos, pkgsByLocation, heap, ret, importPath,
                   nImports, pkgsByDependencyDepth, output>>

\* func scanFileForDependencies: one iteration of the loop over
\* astFile.Imports.  With importedPkg nil the nil pointer is appended to
\* pkg.Dependencies and the program panics, in Less (Name on nil) when the
\* list has two entries or more and at importedPkg.Dependants otherwise.
scanFileForDependencies ==
    /\ pc = "deps"
    /\ cur # Nil
    /\ nImports < MaxImports
    /\ \E path \in ImportPaths :
        LET importedPkg == pkgFromImportPath(pkgsByLocation, path)
        IN  /\ importPath' = path
            /\ IF importedPkg = Nil
               THEN /\ heap' = [heap EXCEPT ![cur].Dependencies = Append(@, Nil)]
                    /\ pc' = "panic"
               ELSE /\ CompilesWith(heap, cur, importedPkg)
                    /\ heap' = AppendDependant(DependsOn(heap, cur, importedPkg),
                                               importedPkg, cur)
                    /\ pc' = pc
    /\ nImports' = nImports + 1
    /\ UNCHANGED <<fs, walkPos, pkgsByLocation, ret, todo, cur,
                   pkgsByDependencyDepth, output>>

\* Mutant: main without its pass over the Dependants lists.
SortDependants_Skipped ==
    /\ pc = "deps"
    /\ todo = {}
    /\ pc' = "final"
    /\ todo' = Refs
    /\ cur' = Nil
    /\ importPath' = <<>>
    /\ UNCHANGED <<fs, walkPos, pkgsByLocation, heap, ret, nImports,
                   pkgsByDependencyDepth, output>>

\* main: for _, pkg := range pkgsByLocation { pkg.Dependants.Sort();
\* pkg.Dependants.makeUnique() }
SortDependants ==
    /\ pc = "deps"
    /\ todo = {}
    /\ heap' = [p \in Refs |->
                   [heap[p] EXCEPT !.Dependants = makeUnique(Sort(heap, @))]]
    /\ pc' = "final"
    /\ todo' = Refs
    /\ cur' = Nil
    /\ importPath' = <<>>
    /\ UNCHANGED <<fs, walkPos, pkgsByLocation, ret, nImports,
                   pkgsByDependencyDepth, output>>

-----------------------------------------------------------------------------
(* Depth, reachability, report *)

\* Mutant: the depth of the dependency ranged over last wins.
nextDepth_Last(importedPkgDepth, depth) == importedPkgDepth + 1

\* Mutant: > for >=.
nextDepth_Strict(importedPkgDepth, depth) ==
    IF importedPkgDepth > depth THEN importedPkgDepth + 1 ELSE depth

\* if importedPkgDepth >= depth { depth = importedPkgDepth + 1 }
nextDepth(importedPkgDepth, depth) ==
    IF importedPkgDepth >= depth THEN importedPkgDepth + 1 ELSE depth

\* func (pkg *Package) DependencyDepth() (depth int)
RECURSIVE DependencyDepth(_, _)
RECURSIVE depthLoop(_, _, _, _)
depthLoop(h, li, i, depth) ==
    IF i > Len(li) THEN depth
    ELSE depthLoop(h, li, i + 1, nextDepth(DependencyDepth(h, li[i]), depth))

DependencyDepth(h, p) ==
    IF Predeclared(h[p]) \/ h[p].Learned THEN -1
    ELSE depthLoop(h, h[p].Dependencies, 1, 0)

\* Mutant: the first loop returns after its first iteration.
anyNonInternal_FirstOnly(h, li) == Len(li) >= 1 /\ ~h[li[1]].Internal

\* first loop of Imported: is any of the dependants non-internal?
anyNonInternal(h, li) == \E i \in 1..Len(li) : ~h[li[i]].Internal

\* func (pkg *Package) Imported() bool
RECURSIVE Imported(_, _)
Imported(h, p) ==
    IF anyNonInternal(h, h[p].Dependants) THEN TRUE
    ELSE \E i \in 1..Len(h[p].Dependants) : Imported(h, h[p].Dependants[i])

\* The name of a dependency as Write prints it.
dependencyName(h, d) ==
    IF ~h[d].Learned /\ ~Predeclared(h[d])
    THEN Name(h[d]) \o <<32>> \o unlearnedIndicator
    ELSE Name(h[d])

\* Sprintf of noDependenciesRow, firstRow and subsequentRows
noDependenciesRow(name, depth, flag) ==
    name \o <<9>> \o Itoa(depth) \o <<9>> \o flag \o <<9>>

firstRow(name, depth, flag, dep) ==
    name \o <<9>> \o Itoa(depth) \o <<9>> \o flag \o <<9>> \o dep \o <<9>>

subsequentRows(dep) == <<9, 9, 9>> \o dep \o <<9>>

\* func (pkg *Package) Write(): the lines written for pkg, none when pkg is
\* internal and not imported.
Write(h, p) ==
    LET imported == Imported(h, p)
        dependancyDepth == DependencyDepth(h, p)
        importFlag == IF imported THEN S_imported ELSE S_unimported
        deps == h[p].Dependencies
    IN  IF h[p].Internal /\ ~imported THEN <<>>
        ELSE IF Len(deps) = 0
             THEN <<noDependenciesRow(Name(h[p]), dependancyDepth, importFlag)>>
             ELSE [i \in 1..Len(deps) |->
                      IF i = 1
                      THEN firstRow(Name(h[p]), dependancyDepth, importFlag,
                                    dependencyName(h, deps[i]))
                      ELSE subsequentRows(dependencyName(h, deps[i]))]

\* func sortByDependencyDepth(), first loop: the next package of the range
\* over pkgsByLocation (any order) is appended to the list of its depth.
appendToDepth(m, depth, pkg) ==
    LET li == IF depth \in DOMAIN m THEN m[depth] ELSE <<>>
    IN  [d \in DOMAIN m \cup {depth} |-> IF d = depth THEN Append(li, pkg) ELSE m[d]]

sortByDependencyDepthAppend ==
    /\ pc = "final"
    /\ \E pkg \in todo :
        /\ pkgsByDependencyDepth' =
               appendToDepth(pkgsByDependencyDepth, DependencyDepth(heap, pkg), pkg)
        /\ todo' = todo \ {pkg}
    /\ UNCHANGED <<fs, pc, walkPos, pkgsByLocation, heap, ret, cur, importPath,
                   nImports, output>>

\* func sortByDependencyDepth(), second loop: every list is sorted.
sortByDependencyDepthSort ==
    /\ pc = "final"
    /\ todo = {}
    /\ pkgsByDependencyDepth' =
           [d \in DOMAIN pkgsByDependencyDepth |-> Sort(heap, pkgsByDependencyDepth[d])]
    /\ pc' = "sorted"
    /\ UNCHANGED <<fs, walkPos, pkgsByLocation, heap, ret, todo, cur, importPath,
                   nImports, output>>

\* The records the packages of one bucket write: the package and its lines.
RECURSIVE writeAll(_, _, _)
writeAll(h, pkgLi, i) ==
    IF i > Len(pkgLi) THEN <<>>
    ELSE LET lines == Write(h, pkgLi[i])
         IN  (IF lines = <<>> THEN <<>> ELSE <<[pkg |-> pkgLi[i], lines |-> lines]>>)
             \o writeAll(h, pkgLi, i + 1)

\* func printPkgs(): for depth := 0; ; depth++ until the bucket is absent
RECURSIVE printLoop(_, _, _)
printLoop(h, m, depth) ==
    IF depth \notin DOMAIN m THEN <<>>
    ELSE writeAll(h, m[depth], 1) \o printLoop(h, m, depth + 1)

\* Mutant: the loop over the depths starts at 1.
printPkgs_FromOne ==
    /\ pc = "sorted"
    /\ output' = output \o printLoop(heap, pkgsByDependencyDepth, 1)
    /\ pc' = "printed"
    /\ UNCHANGED <<fs, walkPos, pkgsByLocation, heap, ret, todo, cur, importPath,
                   nImports, pkgsByDependencyDepth>>

printPkgs ==
    /\ pc = "sorted"
    /\ output' = output \o printLoop(heap, pkgsByDependencyDepth, 0)
    /\ pc' = "printed"
    /\ UNCHANGED <<fs, walkPos, pkgsByLocation, heap, ret, todo, cur, importPath,
                   nImports, pkgsByDependencyDepth>>

Next ==
    \/ PrimeC
    \/ loadPath
    \/ loadLearnedPkgs
    \/ loadDependencies
    \/ scanFileForDependencies
    \/ SortDependants
    \/ sortByDependencyDepthAppend
    \/ sortByDependencyDepthSort
    \/ printPkgs

Spec == Init /\ [][Next]_vars

-----------------------------------------------------------------------------
(* The registry under direct calls of NewPackage *)

Identities ==
    {standardLibraryPath} \cup {FullPathOf(r) : r \in {S_C, S_a, S_b, S_internal_x}}

\* A caller registers an identity while the tree is loaded.
NewPackageCall ==
    /\ pc = "walk"
    /\ \E fullPath \in Identities : NewPackage(fullPath)
    /\ UNCHANGED <<fs, pc, walkPos, todo, cur, importPath, nImports,
                   pkgsByDependencyDepth, output>>

NextRegistry == PrimeC \/ loadPath \/ NewPackageCall

SpecRegistry == Init /\ [][NextRegistry]_vars

-----------------------------------------------------------------------------
(* Properties *)

ListSet(li) == {li[i] : i \in 1..Len(li)}

SortedByName(h, li) ==
    \A i \in 1..(Len(li) - 1) : ~StrLess(Name(h[li[i + 1]]), Name(h[li[i]]))

NoRepeats(li) == \A i, j \in 1..Len(li) : i # j => li[i] # li[j]

NoAdjacentRepeats(li) == \A i \in 1..(Len(li) - 1) : li[i] # li[i + 1]

DistinctNames(h, li) ==
    \A p, q \in ListSet(li) : p # q => Name(h[p]) # Name(h[q])

Terminal(h, p) == h[p].Learned \/ Predeclared(h[p])

SetMax(S) == CHOOSE x \in S : \A y \in S : y <= x

\* The recurrence of the depth, over the set of dependencies.
RECURSIVE referenceDepth(_, _)
referenceDepth(h, p) ==
    IF Terminal(h, p) THEN -1
    ELSE IF ListSet(h[p].Dependencies) = {} THEN 0
    ELSE 1 + SetMax({referenceDepth(h, d) : d \in ListSet(h[p].Dependencies)})

\* The packages reached from S by Dependants edges, S included.
RECURSIVE DependantClosure(_, _)
DependantClosure(h, S) ==
    LET T == S \cup UNION {ListSet(h[q].Dependants) : q \in S}
    IN  IF T = S THEN S ELSE DependantClosure(h, T)

\* The packages at the end of a chain of one or more Dependants edges from p.
ChainEnds(h, p) == DependantClosure(h, ListSet(h[p].Dependants))

RECURSIVE dependantsUpTo(_, _)
dependantsUpTo(h, n) ==
    IF n = 0 THEN 0 ELSE Len(h[n].Dependants) + dependantsUpTo(h, n - 1)

\* The number of entries of all Dependants lists.
TotalDependants == dependantsUpTo(heap, Len(heap))

\* C1: DependencyDepth(P) is the recurrence: -1 for a learned or predeclared
\* package, 0 without dependencies, else 1 + the maximum over the set of
\* dependencies, whatever the order of the list.
C1_DepthIsRecurrence ==
    pc # "panic" =>
        \A p \in Refs : DependencyDepth(heap, p) = referenceDepth(heap, p)

\* A package of depth 2 whose deeper dependency comes first in its list.
C1_Witness ==
    /\ pc = "deps"
    /\ \E p \in Refs :
        /\ Len(heap[p].Dependencies) = 2
        /\ DependencyDepth(heap, heap[p].Dependencies[1]) = 1
        /\ DependencyDepth(heap, heap[p].Dependencies[2]) = 0
        /\ DependencyDepth(heap, p) = 2

\* C2 as stated: the depth is 0 iff the package has no dependencies and is
\* neither learned nor predeclared.
C2_ZeroIffNoDependencies ==
    pc # "panic" =>
        \A p \in Refs :
            DependencyDepth(heap, p) = 0
                <=> (heap[p].Dependencies = <<>> /\ ~Terminal(heap, p))

\* C2 amended: the depth is 0 iff the package is neither learned nor
\* predeclared and each of its dependencies (if any) is learned or predeclared.
C2_ZeroIffDependenciesTerminal ==
    pc # "panic" =>
        \A p \in Refs :
            DependencyDepth(heap, p) = 0
                <=> /\ ~Terminal(heap, p)
                    /\ \A d \in ListSet(heap[p].Dependencies) : Terminal(heap, d)

\* A package of depth 0 that has a dependency.
C2_Witness ==
    /\ pc = "deps"
    /\ \E p \in Refs : heap[p].Dependencies # <<>> /\ DependencyDepth(heap, p) = 0

\* C3: Imported(P) iff a chain of one or more Dependants edges leads from P to
\* a package that is not internal; P's own Internal flag plays no part.
C3_ImportedIffChain ==
    pc # "panic" =>
        \A p \in Refs :
            Imported(heap, p) <=> \E q \in ChainEnds(heap, p) : ~heap[q].Internal

\* A package all of whose dependants are internal and that is imported.
C3_Witness ==
    /\ pc = "deps"
    /\ \E p \in Refs :
        /\ heap[p].Dependants # <<>>
        /\ \A q \in ListSet(heap[p].Dependants) : heap[q].Internal
        /\ Imported(heap, p)

\* C4: after any sequence of DependsOn calls every Dependencies list is
\* sorted by display name and holds no reference twice.
C4_DependenciesSortedUnique ==
    pc # "panic" =>
        \A p \in Refs :
            /\ SortedByName(heap, heap[p].Dependencies)
            /\ NoRepeats(heap[p].Dependencies)

C6_UnresolvedImportIgnored ==
    [][(/\ pc = "deps"
        /\ nImports' = nImports + 1
        /\ pkgFromImportPath(pkgsByLocation, importPath') = Nil)
       => (heap' = heap /\ pc' = "deps")]_vars

\* C7: NewPackage on an identity already registered returns the duplicate
\* error and no package and leaves the registry as it was; the reference an
\* identity maps to never changes, and two identities never share one.
C7_DuplicateRejected ==
    /\ [][/\ \A k \in DOMAIN pkgsByLocation :
               k \in DOMAIN pkgsByLocation' /\ pkgsByLocation'[k] = pkgsByLocation[k]
          /\ (ret' # ret /\ ret'.arg \in DOMAIN pkgsByLocation)
                => /\ ret'.err
                   /\ ret'.pkg = Nil
                   /\ pkgsByLocation' = pkgsByLocation
                   /\ heap' = heap]_vars
    /\ [](\A k1, k2 \in DOMAIN pkgsByLocation :
              /\ pkgsByLocation[k1] \in Refs
              /\ pkgsByLocation[k1] = pkgsByLocation[k2] => k1 = k2)

\* NewPackage has just refused an identity that is registered.
C7_Witness ==
    /\ ret.err
    /\ ret.arg \in DOMAIN pkgsByLocation
    /\ pkgsByLocation[ret.arg] \in Refs

\* The packages the report owes a record.
Reported(h) ==
    {p \in 1..Len(h) : DependencyDepth(h, p) >= 0 /\ ~(h[p].Internal /\ ~Imported(h, p))}

\* C8: the report holds exactly one record for each package of depth >= 0 that
\* is not internal and unimported, and none for another; a package of depth
\* d > 0 comes with a package of depth d - 1, so that no populated depth is cut
\* off.
C8_ReportCoversExactly ==
    /\ pc # "panic" =>
           \A p \in Refs :
               DependencyDepth(heap, p) > 0 =>
                   \E q \in Refs : DependencyDepth(heap, q) = DependencyDepth(heap, p) - 1
    /\ pc = "printed" =>
           /\ \A i \in 1..Len(output) : output[i].pkg \in Reported(heap)
           /\ \A p \in Reported(heap) :
                  Cardinality({i \in 1..Len(output) : output[i].pkg = p}) = 1

\* A report with a record of depth 1, a package left out as internal and
\* unimported, and a package left out for its depth of -1.
C8_Witness ==
    /\ pc = "printed"
    /\ \E i \in 1..Len(output) : DependencyDepth(heap, output[i].pkg) = 1
    /\ \E p \in Refs : heap[p].Internal /\ ~Imported(heap, p)
    /\ \E p \in Refs : DependencyDepth(heap, p) = -1

\* The lines of a report, record after record.
RECURSIVE Text(_)
Text(out) == IF out = <<>> THEN <<>> ELSE Head(out).lines \o Text(Tail(out))

RECURSIVE groupInOrder(_, _, _, _)
groupInOrder(h, m, order, i) ==
    IF i > Len(order) THEN m
    ELSE groupInOrder(h, appendToDepth(m, DependencyDepth(h, order[i]), order[i]),
                      order, i + 1)

\* The report of a run whose range over pkgsByLocation yields the packages in
\* the given order.
ReportInOrder(h, order) ==
    LET filled == groupInOrder(h, <<>>, order, 1)
    IN  printLoop(h, [d \in DOMAIN filled |-> Sort(h, filled[d])], 0)

\* C9: on the same packages, edges and learned flags every run of the report
\* writes the same lines: the lines written are those of the run that ranges
\* over the registry in the order of registration.
C9_ReportDeterministic ==
    pc = "printed" =>
        Text(output) = Text(ReportInOrder(heap, [i \in 1..Len(heap) |-> i]))

\* C10: Q is among P's Dependencies iff P is among Q's Dependants, after every
\* edge addition and after main's pass over the Dependants lists.
C10_EdgeIndexesAgree ==
    pc # "panic" =>
        \A p, q \in Refs :
            q \in ListSet(heap[p].Dependencies) <=> p \in ListSet(heap[q].Dependants)

\* The pass has run on a graph where one package has two dependencies and an
\* import was scanned twice.
C10_Witness ==
    /\ pc = "final"
    /\ TotalDependants < nImports
    /\ \E p \in Refs : Cardinality(ListSet(heap[p].Dependencies)) >= 2

=============================================================================
